---- MODULE Spec2Model ----
(***************************************************************************)
(* Model of the release reconciler of github-create-release: init() and    *)
(* run() of main.mts, the retry helper runWithRetry, the input readers of  *)
(* actions.mts and isHttpError of error.mts, run against a remote that     *)
(* holds git refs, releases and the assets of the created release.         *)
(*                                                                         *)
(* Strings are tuples of one-character strings, so that trim(),            *)
(* includes("/"), replace(/^refs\//, "") and basename() are computed.      *)
(***************************************************************************)
EXTENDS Integers, Sequences, FiniteSets, TLC

VARIABLES
  pc,         \* position of run() / init()
  initialized,\* init() has returned the configuration
  rawOthers,  \* which of the other inputs is unusable, if any
  rawStrategy,\* the 'strategy' input as supplied
  rawTarget,  \* the 'target' input as supplied
  titleInputs,\* 'title-source', 'title', and the file and variable it can name
  rawTagMessage,\* the 'tag-message' input as supplied (optional)
  tagMessage, \* config.tagMessage
  title,      \* config.title
  releaseName,\* the name sent in create-release (optional)
  strategy,   \* config.strategy
  targetSha,  \* config.targetSha (optional)
  refs,       \* remote: fully qualified ref name -> optional sha
  releases,   \* remote: releases in listing order (newest first)
  assets,     \* remote: assets of the release created by this run
  existingTag,\* result of the tag lookup (optional sha)
  lookupErr,  \* the error the tag lookup threw, if any
  stale,      \* releases.data still to be visited by the deletion loop
  undoTag,    \* which undo closure is registered
  release,    \* id of the release created by this run, 0 when none
  files,      \* result of glob(config.files)
  fileIdx,    \* index of the file being uploaded
  i,          \* loop index of runWithRetry
  delay,      \* delay of the last backoff sleep of the current file
  attempts,   \* number of calls of f for the current file
  sleeps,     \* number of backoff sleeps for the current file
  firstOk,    \* number of the first call of f that returned, 0 when none
  retryErr,   \* error returned by runWithRetry ([false, err])
  lastUpload, \* what the last call of f listed and left when it uploaded
  maxAttempts,\* the `attempts` argument of runWithRetry
  calls,      \* remote calls issued by the main flow, in order
  undoCalls,  \* number of invocations of undoTag
  undoFailed, \* the undo threw (logged only)
  err,        \* the error that reached the top-level catch
  exitCode,   \* process exit status, -1 while running
  output      \* value emitted by setOutput("release-id", ...), 0 when none

vars == <<pc, initialized, rawOthers, rawStrategy, rawTarget, titleInputs, title,
          rawTagMessage, tagMessage,
          releaseName, strategy, targetSha, refs, releases,
          assets, existingTag, lookupErr, stale, undoTag, release, files, fileIdx, i,
          delay, attempts, sleeps, firstOk, retryErr, lastUpload, maxAttempts,
          calls, undoCalls, undoFailed,
          err, exitCode, output>>

(***************************************************************************)
(* Bounds                                                                  *)
(***************************************************************************)
MaxReleases == 2   \* releases in the repository before the run
PerPage == 1       \* releases returned by one list-releases call (the page
                   \* size of the forge, scaled down with MaxReleases)
MaxFiles == 2      \* files matched by the globs
MaxRetryArg == 5   \* largest `attempts` argument runWithRetry is tried with

(***************************************************************************)
(* Strings                                                                 *)
(***************************************************************************)
SLASH == "/"
SPACE == " "

S_refs == <<"r", "e", "f", "s", "/">>
S_tags == <<"t", "a", "g", "s", "/">>
S_heads_m == <<"h", "/", "m">>

\* String.prototype.includes
Includes(s, c) == \E k \in 1..Len(s) : s[k] = c

RECURSIVE TrimStart(_)
TrimStart(s) == IF s # <<>> /\ Head(s) = SPACE THEN TrimStart(Tail(s)) ELSE s

RECURSIVE TrimEnd(_)
TrimEnd(s) ==
  IF s # <<>> /\ s[Len(s)] = SPACE THEN TrimEnd(SubSeq(s, 1, Len(s) - 1)) ELSE s

\* String.prototype.trim
Trim(s) == TrimEnd(TrimStart(s))

StartsWith(s, p) == Len(s) >= Len(p) /\ SubSeq(s, 1, Len(p)) = p

\* line 152 left out: the target is looked up as supplied
StripRefsKeepsPrefix(s) == s

\* target.replace(/^refs\//, "")
StripRefs(s) == IF StartsWith(s, S_refs) THEN SubSeq(s, Len(S_refs) + 1, Len(s)) ELSE s

\* optional values (undefined / a value)
None == [has |-> FALSE, val |-> <<>>]
Some(v) == [has |-> TRUE, val |-> v]


(***************************************************************************)
(* Values                                                                  *)
(***************************************************************************)
Replace == "replace"
FailFast == "fail-fast"
UseExistingTag == "use-existing-tag"
Strategy == {Replace, FailFast, UseExistingTag}

\* The supplied 'strategy' values: the three variants, omitted, and a bad one.
\* None of them carries white space, so the trim of getEnumInput is not shown.
RawStrategies == Strategy \cup {"", "bogus"}

\* The supplied 'target' values: omitted, white space only, a sha with white
\* space around it, a fully qualified ref, a ref without the refs/ prefix.
RawTargets ==
  { <<>>, <<" ">>, <<" ", "a", " ">>, S_refs \o S_heads_m, S_heads_m }

\* The other inputs: all usable, or one of them unusable: 'token' omitted,
\* 'repository' without a slash, 'title-source' not a variant, 'draft' not a
\* boolean.
OtherInputs ==
  {"ok", "token-missing", "repository-malformed", "title-source-invalid",
   "draft-invalid"}

Tag == <<"v">>          \* config.tag
OtherTag == <<"w">>     \* the tag of unrelated releases
TagRef == S_tags \o Tag \* `tags/${config.tag}`
FullTagRef == S_refs \o S_tags \o Tag \* `refs/tags/${config.tag}`

Sha0 == <<"0">>   \* sha the tag points at before the run
Sha1 == <<"1">>   \* sha of the branch h/m
ShaT == <<"2">>   \* sha of a tag object made by create-tag-object

NoCause == [src |-> "none", n |-> 0, k |-> 0]
CallCause(n) == [src |-> "call", n |-> n, k |-> 0]
UploadCause(f, a) == [src |-> "upload", n |-> f, k |-> a]
NoErr == [kind |-> "none", msg |-> "", param |-> "", cause |-> NoCause]

\* a call of f that issued no upload-release-asset
NoUpload == [issued |-> FALSE, listed |-> 0, left |-> 0]

Call(op, ref, sha, force, id, ok) ==
  [op |-> op, ref |-> ref, sha |-> sha, force |-> force, id |-> id, ok |-> ok]

(***************************************************************************)
(* actions.mts: input readers                                              *)
(***************************************************************************)
\* hasValue, given whether the raw value is null or "": "absent", "missing"
\* (throws) or "present"
HasValue(required, empty) ==
  IF empty
    THEN (IF required THEN "missing" ELSE "absent")
    ELSE "present"

\* getInput(name, false): undefined, or the trimmed value
GetInput(raw) ==
  IF HasValue(FALSE, raw = <<>>) = "absent" THEN None ELSE Some(Trim(raw))

\* getEnumInput without the hasValue and variants.includes checks
GetEnumInputAcceptsAll(raw, variants) == "ok"

\* getEnumInput(name, variants, true): "missing", "invalid" or "ok"
GetEnumInput(raw, variants) ==
  IF HasValue(TRUE, raw = "") = "missing" THEN "missing"
  ELSE IF raw \in variants THEN "ok" ELSE "invalid"

\* getRawInput: process.env[...] || ""
GetRawInput(env) == IF env.has /\ env.val # <<>> THEN env.val ELSE <<>>

\* the supplied 'tag-message' values: omitted, the empty string, white space
\* only, a text, a text with white space around it
RawTagMessages ==
  { None, Some(<<>>), Some(<<" ">>), Some(<<"m">>), Some(<<" ", "m", " ">>) }

\* line 134: getInput("tag-message") || tag
TagMessage(env, tag) ==
  LET value == GetInput(GetRawInput(env))
  IN IF value.has /\ value.val # <<>> THEN value.val ELSE tag

(***************************************************************************)
(* getTitle                                                                *)
(***************************************************************************)
NEWLINE == "\n"

TitleSources == {"literal", "file", "env"}

\* the supplied 'title' values: omitted, a text, a text with white space
\* around it, white space only
RawTitles == { <<>>, <<"X">>, <<" ", "X", " ">>, <<" ">> }

\* what readFile of the named file gives: it throws, or the contents
FileContents ==
  { None, Some(<<>>), Some(<<"Y", NEWLINE>>), Some(<<" ", "Y">>) }

\* process.env[varName]: undefined, or the value
EnvValues == { None, Some(<<>>), Some(<<"Z", " ">>) }

TitleInputs ==
  [source : TitleSources, raw : RawTitles, file : FileContents,
   env : EnvValues]

\* the title inputs of the runs in which the title plays no part
PlainTitle ==
  [source |-> "literal", raw |-> <<" ", "X", " ">>, file |-> None,
   env |-> None]

Returned(v) == [thrown |-> "", msg |-> "", val |-> v]
Raised(kind, msg) == [thrown |-> kind, msg |-> msg, val |-> None]

\* getTitle with the contents of the file trimmed
GetTitleTrimsFile(in) ==
  CASE in.source = "literal" -> Returned(GetInput(in.raw))
    [] in.source = "file" ->
         IF HasValue(TRUE, in.raw = <<>>) = "missing"
           THEN Raised("MissingInputParameterError", "")
         ELSE IF in.file.has THEN Returned(Some(Trim(in.file.val)))
         ELSE Raised("ActionError", "failed to read title from file")
    [] in.source = "env" ->
         IF HasValue(TRUE, in.raw = <<>>) = "missing"
           THEN Raised("MissingInputParameterError", "")
           ELSE Returned(in.env)

\* getTitle(), after getEnumInput accepted the title source
GetTitle(in) ==
  CASE in.source = "literal" -> Returned(GetInput(in.raw))
    [] in.source = "file" ->
         IF HasValue(TRUE, in.raw = <<>>) = "missing"
           THEN Raised("MissingInputParameterError", "")
         ELSE IF in.file.has THEN Returned(in.file)
         ELSE Raised("ActionError", "failed to read title from file")
    [] in.source = "env" ->
         IF HasValue(TRUE, in.raw = <<>>) = "missing"
           THEN Raised("MissingInputParameterError", "")
           ELSE Returned(in.env)

\* `value ?? ""`
OrEmpty(v) == IF v.has THEN v.val ELSE <<>>

(***************************************************************************)
(* error.mts: isHttpError                                                  *)
(***************************************************************************)
\* Errors a get-ref call can throw: 404, 500, an HttpError whose status is
\* not a number, an Error of another name, and a thrown non-Error value.
Http404 == [isError |-> TRUE, name |-> "HttpError", hasStatus |-> TRUE,
            statusIsNumber |-> TRUE, status |-> 404]
Http500 == [isError |-> TRUE, name |-> "HttpError", hasStatus |-> TRUE,
            statusIsNumber |-> TRUE, status |-> 500]
HttpNoStatus == [isError |-> TRUE, name |-> "HttpError", hasStatus |-> FALSE,
                 statusIsNumber |-> FALSE, status |-> 0]
TypeErr404 == [isError |-> TRUE, name |-> "TypeError", hasStatus |-> TRUE,
               statusIsNumber |-> TRUE, status |-> 404]
Thrown404 == [isError |-> FALSE, name |-> "HttpError", hasStatus |-> TRUE,
              statusIsNumber |-> TRUE, status |-> 404]
NoLookupErr == [isError |-> FALSE, name |-> "", hasStatus |-> FALSE,
                statusIsNumber |-> FALSE, status |-> 0]
LookupErrors == {Http404, Http500, HttpNoStatus, TypeErr404, Thrown404}

\* isHttpError testing only the status field
IsHttpErrorByStatus(e) ==
  /\ e.hasStatus
  /\ e.statusIsNumber

IsHttpError(e) ==
  /\ e.isError
  /\ e.name = "HttpError"
  /\ e.hasStatus
  /\ e.statusIsNumber

(***************************************************************************)
(* The remote                                                              *)
(***************************************************************************)
RefNames == {FullTagRef, S_refs \o S_heads_m}

\* git refs API: get, update and delete name the ref without the refs/ prefix
Lookup(ref) ==
  IF (S_refs \o ref) \in DOMAIN refs THEN refs[S_refs \o ref] ELSE None

\* the commits the shas of the model name, oldest first: each is the parent
\* of the next
History == << <<"a">>, Sha0, Sha1 >>

IsAncestor(x, y) ==
  \E j, k \in 1..Len(History) : j <= k /\ History[j] = x /\ History[k] = y

\* update-ref moves a ref when it is forced or the move is a fast-forward
UpdateAccepted(current, sha, force) == force \/ IsAncestor(current, sha)

RECURSIVE Prefixes(_)
Prefixes(n) ==
  IF n = 0 THEN {<<>>}
  ELSE LET P == Prefixes(n - 1)
       IN P \cup { Append(p, t) : p \in {q \in P : Len(q) = n - 1},
                                  t \in {Tag, OtherTag} }

\* releases before the run: ids 1..n, any tag names
InitialReleases ==
  { [k \in 1..Len(ts) |-> [id |-> k, tag_name |-> ts[k]]] :
      ts \in Prefixes(MaxReleases) }

\* the first page of list-releases
FirstPage(rs) == SubSeq(rs, 1, IF Len(rs) < PerPage THEN Len(rs) ELSE PerPage)

RECURSIVE Without(_, _)
Without(rs, id) ==
  IF rs = <<>> THEN <<>>
  ELSE IF Head(rs).id = id THEN Without(Tail(rs), id)
       ELSE <<Head(rs)>> \o Without(Tail(rs), id)

\* line 251 with the test always true: every listed release is skipped
SkipOthersSkipsAll(rs) == <<>>

\* `if (release.tag_name !== config.tag) continue;`
RECURSIVE SkipOthers(_)
SkipOthers(rs) ==
  IF rs # <<>> /\ Head(rs).tag_name # Tag THEN SkipOthers(Tail(rs)) ELSE rs

NewReleaseId == MaxReleases + 1


(***************************************************************************)
(* Initial state                                                           *)
(***************************************************************************)
\* line 368: runWithRetry(4, 4000, ...)
Attempts == 4      \* runWithRetry(4, ...)
MaxDelay == 4000   \* runWithRetry(..., 4000, ...)

\* the state before init() has read anything
Started ==
  /\ pc = "init"
  /\ initialized = FALSE
  /\ title = <<>>
  /\ tagMessage = <<>>
  /\ releaseName = None
  /\ strategy = ""
  /\ targetSha = None
  /\ assets = {}
  /\ existingTag = None
  /\ lookupErr = NoLookupErr
  /\ stale = <<>>
  /\ undoTag = "unset"
  /\ release = 0
  /\ files = <<>>
  /\ fileIdx = 0
  /\ i = 0
  /\ delay = 0
  /\ attempts = 0
  /\ sleeps = 0
  /\ firstOk = 0
  /\ retryErr = NoCause
  /\ lastUpload = NoUpload
  /\ calls = <<>>
  /\ undoCalls = 0
  /\ undoFailed = FALSE
  /\ err = NoErr
  /\ exitCode = -1
  /\ output = 0

Init ==
  /\ rawOthers \in OtherInputs
  /\ rawStrategy \in RawStrategies
  /\ rawTarget \in RawTargets
  /\ titleInputs = PlainTitle
  /\ rawTagMessage = None
  /\ refs \in [RefNames -> {None, Some(Sha0), Some(Sha1)}]
  /\ refs[FullTagRef] \in {None, Some(Sha0)}
  /\ refs[S_refs \o S_heads_m] = Some(Sha1)
  /\ releases \in InitialReleases
  /\ maxAttempts = Attempts
  /\ Started

\* the runs that create the tag and differ in the 'tag-message' input
MessageInit ==
  /\ rawOthers = "ok"
  /\ rawStrategy \in {Replace, FailFast}
  /\ rawTarget \in { <<"a">>, <<" ", "a", " ">> }
  /\ titleInputs = PlainTitle
  /\ rawTagMessage \in RawTagMessages
  /\ refs \in [RefNames -> {None, Some(Sha0), Some(Sha1)}]
  /\ refs[FullTagRef] = None
  /\ refs[S_refs \o S_heads_m] = Some(Sha1)
  /\ releases = <<>>
  /\ maxAttempts = Attempts
  /\ Started

\* the runs that differ in the title inputs only: replace, a sha as target
TitleInit ==
  /\ rawOthers = "ok"
  /\ rawStrategy = Replace
  /\ rawTarget = <<"a">>
  /\ titleInputs \in TitleInputs
  /\ rawTagMessage = None
  /\ refs \in [RefNames -> {None, Some(Sha0), Some(Sha1)}]
  /\ refs[FullTagRef] = Some(Sha0)
  /\ refs[S_refs \o S_heads_m] = Some(Sha1)
  /\ releases = <<>>
  /\ maxAttempts = Attempts
  /\ Started

\* runWithRetry with any `attempts` argument: a replace run that has moved
\* the tag from commit 0 to commit a and created its release, about to expand
\* the file globs
RetryInit ==
  /\ maxAttempts \in 0..MaxRetryArg
  /\ pc = "glob"
  /\ initialized = TRUE
  /\ rawOthers = "ok"
  /\ rawStrategy = Replace
  /\ rawTarget = <<"a">>
  /\ titleInputs = PlainTitle
  /\ title = <<"X">>
  /\ rawTagMessage = None
  /\ tagMessage = <<"v">>
  /\ releaseName = Some(<<"X">>)
  /\ strategy = Replace
  /\ targetSha = Some(<<"a">>)
  /\ refs = [r \in RefNames |-> IF r = FullTagRef THEN Some(<<"a">>) ELSE Some(Sha1)]
  /\ releases = <<[id |-> NewReleaseId, tag_name |-> Tag]>>
  /\ assets = {}
  /\ existingTag = Some(Sha0)
  /\ lookupErr = NoLookupErr
  /\ stale = <<>>
  /\ undoTag = "restore"
  /\ release = NewReleaseId
  /\ files = <<>>
  /\ fileIdx = 0
  /\ i = 0
  /\ delay = 0
  /\ attempts = 0
  /\ sleeps = 0
  /\ firstOk = 0
  /\ retryErr = NoCause
  /\ lastUpload = NoUpload
  /\ calls = << Call("getRef", TagRef, <<>>, FALSE, 0, TRUE),
                Call("listReleases", <<>>, <<>>, FALSE, 0, TRUE),
                Call("updateRef", TagRef, <<"a">>, TRUE, 0, TRUE),
                Call("createRelease", Tag, <<>>, FALSE, 0, TRUE) >>
  /\ undoCalls = 0
  /\ undoFailed = FALSE
  /\ err = NoErr
  /\ exitCode = -1
  /\ output = 0

remoteVars == <<refs, releases, assets>>
inputVars == <<rawOthers, rawStrategy, rawTarget, titleInputs, rawTagMessage>>
uploadVars == <<files, fileIdx, i, delay, attempts, sleeps, firstOk, retryErr,
                lastUpload, maxAttempts>>
undoVars == <<undoCalls, undoFailed>>
tagVars == <<existingTag, lookupErr>>
configVars == <<initialized, rawOthers, rawStrategy, rawTarget, titleInputs,
                title, rawTagMessage, tagMessage, strategy, targetSha>>

\* lines 462-476 without the process.exit(1): the error is only logged
ThrowWithoutExit(kind, msg, param, cause) ==
  /\ err' = [kind |-> kind, msg |-> msg, param |-> param, cause |-> cause]
  /\ pc' = "failed"
  /\ exitCode' = 0

\* an error reaches the top-level catch: it is logged and the process exits 1
Throw(kind, msg, param, cause) ==
  /\ err' = [kind |-> kind, msg |-> msg, param |-> param, cause |-> cause]
  /\ pc' = "failed"
  /\ exitCode' = 1

Continue(next) ==
  /\ pc' = next
  /\ UNCHANGED <<err, exitCode>>

(***************************************************************************)
(* init()                                                                  *)
(***************************************************************************)
\* lines 184-209 without the check of lines 198-200
FinishInitAcceptsTarget(strat, tsha) ==
  IF ~tsha.has /\ strat # UseExistingTag
    THEN /\ Throw("InputParameterRequiredError", "", "target", NoCause)
         /\ UNCHANGED <<targetSha, initialized>>
    ELSE /\ Continue("getTag")
         /\ targetSha' = tsha
         /\ initialized' = TRUE

\* lines 184-209: the targetSha / strategy check that ends init()
FinishInit(strat, tsha) ==
  IF ~tsha.has
    THEN IF strat # UseExistingTag
           THEN /\ Throw("InputParameterRequiredError", "", "target", NoCause)
                /\ UNCHANGED <<targetSha, initialized>>
           ELSE /\ Continue("getTag")
                /\ targetSha' = None
                /\ initialized' = TRUE
    ELSE IF strat = UseExistingTag
           THEN /\ Throw("InputParameterIncompatibleStrategyError", "",
                         "target", NoCause)
                /\ UNCHANGED <<targetSha, initialized>>
           ELSE /\ Continue("getTag")
                /\ targetSha' = tsha
                /\ initialized' = TRUE

\* lines 122-169 for a target that needs no lookup, then lines 171-209
InitInputs ==
  /\ pc = "init"
  /\ LET e == GetEnumInput(rawStrategy, Strategy)
         t == GetTitle(titleInputs)
         target == GetInput(rawTarget)
     IN IF rawOthers = "token-missing"
          THEN /\ Throw("MissingInputParameterError", "", "token", NoCause)
               /\ UNCHANGED <<strategy, targetSha, initialized, title>>
        ELSE IF rawOthers = "repository-malformed"
          THEN /\ Throw("ActionError",
                        "repository is not in the <owner>/<repo> format", "",
                        NoCause)
               /\ UNCHANGED <<strategy, targetSha, initialized, title>>
        ELSE IF e = "missing"
          THEN /\ Throw("MissingInputParameterError", "", "strategy", NoCause)
               /\ UNCHANGED <<strategy, targetSha, initialized, title>>
        ELSE IF e = "invalid"
          THEN /\ Throw("InvalidInputParameterValueError", "", "strategy",
                        NoCause)
               /\ UNCHANGED <<strategy, targetSha, initialized, title>>
        ELSE IF rawOthers = "title-source-invalid"
          THEN /\ Throw("InvalidInputParameterValueError", "", "title-source",
                        NoCause)
               /\ UNCHANGED <<strategy, targetSha, initialized, title>>
        ELSE IF t.thrown # ""
          THEN /\ Throw(t.thrown, t.msg, "title", NoCause)
               /\ UNCHANGED <<strategy, targetSha, initialized, title>>
        ELSE IF rawOthers = "draft-invalid"
          THEN /\ Throw("InvalidInputParameterValueError", "", "draft", NoCause)
               /\ UNCHANGED <<strategy, targetSha, initialized>>
               /\ title' = OrEmpty(t.val)
        ELSE /\ strategy' = rawStrategy
             /\ title' = OrEmpty(t.val)
             /\ IF target.has /\ Includes(target.val, SLASH)
                  THEN /\ Continue("resolveTarget")
                       /\ UNCHANGED <<targetSha, initialized>>
                  ELSE FinishInit(rawStrategy, target)
  /\ tagMessage' = IF rawOthers \in {"token-missing", "repository-malformed"}
                     THEN tagMessage
                     ELSE TagMessage(rawTagMessage, Tag)
  /\ UNCHANGED <<inputVars, remoteVars, tagVars, stale, undoTag, release,
                 releaseName, uploadVars, calls, undoVars, output>>

\* lines 152-165 and 171-209: the get-ref lookup of a target ref
ResolveTarget ==
  /\ pc = "resolveTarget"
  /\ LET targetRefName == StripRefs(GetInput(rawTarget).val)
         found == Lookup(targetRefName)
     IN \E ok \in {b \in BOOLEAN : b => found.has} :
          /\ calls' = Append(calls, Call("getRef", targetRefName, <<>>, FALSE, 0, ok))
          /\ IF ok
               THEN FinishInit(strategy, found)
               ELSE /\ Throw("ActionError", "failed to resolve target ref", "",
                             CallCause(Len(calls) + 1))
                    /\ UNCHANGED <<targetSha, initialized>>
  /\ UNCHANGED <<inputVars, title, tagMessage, strategy, remoteVars, tagVars,
                 stale, undoTag, release, releaseName, uploadVars, undoVars,
                 output>>


(***************************************************************************)
(* run(): tag lookup and deletion of the releases of the tag               *)
(***************************************************************************)
\* the check of line 239 written against the wrong strategy
TagExistsFatalOnReplace(found, strat) == found.has /\ strat = Replace

\* line 239: existingTag != null && config.strategy === Strategy.FailFast
TagExistsFatal(found, strat) == found.has /\ strat = FailFast

\* lines 218-241: get-ref of tags/<tag>, the catch, and the FailFast check
GetTag ==
  /\ pc = "getTag"
  /\ LET found == Lookup(TagRef)
         n == Len(calls) + 1
     IN \/ /\ found.has
           /\ calls' = Append(calls, Call("getRef", TagRef, <<>>, FALSE, 0, TRUE))
           /\ existingTag' = found
           /\ UNCHANGED lookupErr
           /\ IF TagExistsFatal(found, strategy)
                THEN Throw("ActionError", "tag already exists", "", NoCause)
                ELSE Continue("listReleases")
        \/ \E e \in LookupErrors :
             /\ e = Http404 => ~found.has
             /\ calls' = Append(calls, Call("getRef", TagRef, <<>>, FALSE, 0, FALSE))
             /\ lookupErr' = e
             /\ UNCHANGED existingTag
             /\ IF IsHttpError(e)
                  THEN IF e.status # 404
                         THEN Throw("ActionError",
                                    "failed to verify if tag already exists", "",
                                    CallCause(n))
                         ELSE Continue("listReleases")
                  ELSE Throw("ActionError",
                             "failed to verify if tag already exists (unknown error)",
                             "", CallCause(n))
  /\ UNCHANGED <<configVars, remoteVars, stale, undoTag, release, releaseName,
                 uploadVars, undoVars, output>>

\* the deletion loop goes on with the next release of the tag, or ends
AfterRelease(rest) ==
  /\ stale' = SkipOthers(rest)
  /\ Continue(IF SkipOthers(rest) = <<>> THEN "tagStep" ELSE "deleteStale")

\* lines 243-253: list-releases (one page)
ListReleases ==
  /\ pc = "listReleases"
  /\ \E ok \in BOOLEAN :
       /\ calls' = Append(calls, Call("listReleases", <<>>, <<>>, FALSE, 0, ok))
       /\ IF ok
            THEN AfterRelease(FirstPage(releases))
            ELSE /\ Throw("Error", "", "", CallCause(Len(calls) + 1))
                 /\ UNCHANGED stale
  /\ UNCHANGED <<configVars, remoteVars, tagVars, undoTag, release,
                 releaseName, uploadVars, undoVars, output>>

\* lines 250-261: delete-release of the next listed release of the tag
DeleteStale ==
  /\ pc = "deleteStale"
  /\ \E ok \in BOOLEAN :
       /\ calls' = Append(calls, Call("deleteRelease", <<>>, <<>>, FALSE,
                                      Head(stale).id, ok))
       /\ IF ok
            THEN /\ releases' = Without(releases, Head(stale).id)
                 /\ AfterRelease(Tail(stale))
            ELSE /\ Throw("Error", "", "", CallCause(Len(calls) + 1))
                 /\ UNCHANGED <<releases, stale>>
  /\ UNCHANGED <<configVars, refs, assets, tagVars, undoTag, release,
                 releaseName, uploadVars, undoVars, output>>

(***************************************************************************)
(* run(): the tag step                                                     *)
(***************************************************************************)
\* the test of line 270 inverted: an existing tag is created, an absent one
\* updated
TagStepBranchInverted(strat, existingTagSha) ==
  IF strat = UseExistingTag THEN "noop"
  ELSE IF existingTagSha.has THEN "create" ELSE "update"

\* the test of line 265 left out: UseExistingTag mutates the tag as well
TagStepBranchAlwaysMutates(strat, existingTagSha) ==
  IF existingTagSha.has THEN "update" ELSE "create"

\* the test of line 265 accepting Replace as well: no mutation, no-op undo
TagStepBranchNoopForReplace(strat, existingTagSha) ==
  IF strat \in {UseExistingTag, Replace} THEN "noop"
  ELSE IF existingTagSha.has THEN "update" ELSE "create"

\* lines 265, 270, 292: which branch of the tag step is taken
TagStepBranch(strat, existingTagSha) ==
  IF strat = UseExistingTag THEN "noop"
  ELSE IF existingTagSha.has THEN "update" ELSE "create"

\* lines 265-268: UseExistingTag registers the no-op undo
RegisterNoopUndo ==
  /\ pc = "tagStep"
  /\ TagStepBranch(strategy, existingTag) = "noop"
  /\ undoTag' = "noop"
  /\ Continue("createRelease")
  /\ UNCHANGED <<configVars, remoteVars, tagVars, stale, release, releaseName,
                 uploadVars, calls, undoVars, output>>

\* lines 270-291: forced update-ref of the existing tag
UpdateTag ==
  /\ pc = "tagStep"
  /\ TagStepBranch(strategy, existingTag) = "update"
  /\ \E ok \in {b \in BOOLEAN : b => Lookup(TagRef).has} :
       /\ calls' = Append(calls, Call("updateRef", TagRef, targetSha.val, TRUE, 0, ok))
       /\ IF ok
            THEN /\ refs' = [refs EXCEPT ![S_refs \o TagRef] = targetSha]
                 /\ undoTag' = "restore"
                 /\ Continue("createRelease")
            ELSE /\ Throw("ActionError", "failed to update existing tag", "",
                          CallCause(Len(calls) + 1))
                 /\ UNCHANGED <<refs, undoTag>>
  /\ UNCHANGED <<configVars, releases, assets, tagVars, stale, release,
                 releaseName, uploadVars, undoVars, output>>

\* lines 293-305 with the error of create-tag-object swallowed
CreateTagObjectSwallowsError ==
  /\ pc = "tagStep"
  /\ TagStepBranch(strategy, existingTag) = "create"
  /\ \E ok \in BOOLEAN :
       calls' = Append(calls, Call("createTag", Tag, targetSha.val, FALSE, 0, ok))
  /\ Continue("createRef")
  /\ UNCHANGED <<configVars, remoteVars, tagVars, stale, undoTag, release,
                 releaseName, uploadVars, undoVars, output>>

\* lines 293-305: create-tag-object
CreateTagObject ==
  /\ pc = "tagStep"
  /\ TagStepBranch(strategy, existingTag) = "create"
  /\ \E ok \in BOOLEAN :
       /\ calls' = Append(calls, Call("createTag", Tag, targetSha.val, FALSE, 0, ok))
       /\ IF ok
            THEN Continue("createRef")
            ELSE Throw("ActionError", "failed to create tag", "",
                       CallCause(Len(calls) + 1))
  /\ UNCHANGED <<configVars, remoteVars, tagVars, stale, undoTag, release,
                 releaseName, uploadVars, undoVars, output>>

\* lines 307-332: create-ref of refs/tags/<tag>, then the delete-ref undo
CreateRef ==
  /\ pc = "createRef"
  /\ \E ok \in {b \in BOOLEAN :
                  b => (FullTagRef \in DOMAIN refs /\ ~refs[FullTagRef].has)} :
       /\ calls' = Append(calls, Call("createRef", FullTagRef, targetSha.val,
                                      FALSE, 0, ok))
       /\ IF ok
            THEN /\ refs' = [refs EXCEPT ![FullTagRef] = targetSha]
                 /\ undoTag' = "deleteRef"
                 /\ Continue("createRelease")
            ELSE /\ Throw("ActionError", "failed to create tag", "",
                          CallCause(Len(calls) + 1))
                 /\ UNCHANGED <<refs, undoTag>>
  /\ UNCHANGED <<configVars, releases, assets, tagVars, stale, release,
                 releaseName, uploadVars, undoVars, output>>


(***************************************************************************)
(* run(): release creation and the undo action                             *)
(***************************************************************************)
\* the ways undoTag() can end (TRUE: it returns, FALSE: it throws): the no-op
\* returns; a remote call can fail, and fails when the ref it names is absent
\* or when the update-ref, which is not forced, is not a fast-forward
UndoOutcomes ==
  CASE undoTag = "restore" ->
         {b \in BOOLEAN :
            b => /\ Lookup(TagRef).has
                 /\ UpdateAccepted(Lookup(TagRef).val, existingTag.val, FALSE)}
    [] undoTag = "deleteRef" -> {b \in BOOLEAN : b => Lookup(FullTagRef).has}
    [] OTHER -> {TRUE}

\* lines 266-268, 280-287, 321-327: the body of the registered undoTag
UndoTag(ok) ==
  /\ undoCalls' = undoCalls + 1
  /\ undoFailed' = ~ok
  /\ CASE undoTag = "restore" ->
            /\ calls' = Append(calls, Call("updateRef", TagRef, existingTag.val,
                                           FALSE, 0, ok))
            /\ refs' = IF ok THEN [refs EXCEPT ![S_refs \o TagRef] = existingTag]
                       ELSE refs
       [] undoTag = "deleteRef" ->
            /\ calls' = Append(calls, Call("deleteRef", FullTagRef, <<>>, FALSE,
                                           0, ok))
            /\ refs' = IF ok THEN [refs EXCEPT ![S_refs \o FullTagRef] = None]
                       ELSE refs
       [] OTHER -> UNCHANGED <<calls, refs>>

\* lines 336-349: create-release
CreateRelease ==
  /\ pc = "createRelease"
  /\ \E ok \in BOOLEAN :
       /\ calls' = Append(calls, Call("createRelease", Tag, <<>>, FALSE, 0, ok))
       /\ releaseName' = Some(title)
       /\ IF ok
            THEN /\ release' = NewReleaseId
                 /\ releases' = <<[id |-> NewReleaseId, tag_name |-> Tag]>> \o releases
                 /\ Continue("glob")
            ELSE /\ Continue("undoAfterCreate")
                 /\ UNCHANGED <<release, releases>>
  /\ UNCHANGED <<configVars, refs, assets, tagVars, stale, undoTag, uploadVars,
                 undoVars, output>>

\* line 357 reading the `err` of the inner catch (line 353) instead: the error
\* of the call the undo issued
CreateReleaseCauseShadowed == CallCause(Len(calls) + 1)

\* the `err` in scope at line 357: the error create-release threw, which is
\* the last call issued before the undo
CreateReleaseCause == CallCause(Len(calls))

\* lines 350-358: the catch of create-release: undo, then the fatal error
UndoAfterCreate ==
  /\ pc = "undoAfterCreate"
  /\ \E ok \in UndoOutcomes : UndoTag(ok)
  /\ Throw("ActionError", "failed to create release", "", CreateReleaseCause)
  /\ UNCHANGED <<configVars, releases, assets, tagVars, stale, undoTag,
                 release, releaseName, uploadVars, output>>


(***************************************************************************)
(* run(): the upload loop and runWithRetry                                 *)
(***************************************************************************)

\* Math.random(), in ten-thousandths
Randoms == {0, 5004, 9996}

Paths == { <<"a", "/", "x">>, <<"b", "/", "x">>, <<"y">> }

RECURSIVE FileListsOf(_)
FileListsOf(n) ==
  IF n = 0 THEN {<<>>}
  ELSE LET P == FileListsOf(n - 1)
       IN P \cup { Append(p, f) : p \in {q \in P : Len(q) = n - 1}, f \in Paths }

\* what glob() can return: lists of distinct paths
FileLists ==
  { fs \in FileListsOf(MaxFiles) :
      \A a, b \in 1..Len(fs) : a # b => fs[a] # fs[b] }

\* path.basename
RECURSIVE Basename(_)
Basename(path) ==
  IF Includes(path, SLASH) THEN Basename(Tail(path)) ELSE path

RECURSIVE Pow2(_)
Pow2(n) == IF n = 0 THEN 1 ELSE 2 * Pow2(n - 1)

Min(a, b) == IF a < b THEN a ELSE b

\* lines 450-453 without the Math.min
BackoffDelayUncapped(idx, random, maxDelay) ==
  (Pow2(idx) * 10000 + random + 5) \div 10

\* lines 450-453 with the exponent one too high
BackoffDelayOneBased(idx, random, maxDelay) ==
  Min((Pow2(idx + 1) * 10000 + random + 5) \div 10, maxDelay)

\* lines 450-453: min(round((2^i + random) * 1000), maxDelay)
BackoffDelay(idx, random, maxDelay) ==
  Min((Pow2(idx) * 10000 + random + 5) \div 10, maxDelay)

\* line 425: setOutput("release-id", releaseId); run() returns
Succeed ==
  /\ output' = release
  /\ pc' = "done"
  /\ exitCode' = 0
  /\ UNCHANGED err

\* line 363: glob(config.files)
GlobFiles ==
  /\ pc = "glob"
  /\ \/ \E fs \in FileLists :
          /\ files' = fs
          /\ IF fs = <<>>
               THEN Succeed /\ UNCHANGED fileIdx
               ELSE Continue("stat") /\ fileIdx' = 1 /\ UNCHANGED output
     \/ /\ Throw("Error", "", "", NoCause)
        /\ UNCHANGED <<files, fileIdx, output>>
  /\ UNCHANGED <<configVars, remoteVars, tagVars, stale, undoTag, release,
                 releaseName, i, delay, attempts, sleeps, firstOk, retryErr,
                 lastUpload, maxAttempts,
                 calls, undoVars>>

\* lines 364-368: stat(file), basename(file), entry of runWithRetry
StatFile ==
  /\ pc = "stat"
  /\ \/ /\ IF 0 < maxAttempts
             THEN Continue("attempt")
             ELSE Throw("Error", "unreachable", "", NoCause)
        /\ i' = 0
        /\ delay' = 0
        /\ attempts' = 0
        /\ sleeps' = 0
        /\ firstOk' = 0
        /\ lastUpload' = NoUpload
     \/ /\ Throw("Error", "", "", NoCause)
        /\ UNCHANGED <<i, delay, attempts, sleeps, firstOk, lastUpload>>
  /\ UNCHANGED <<configVars, remoteVars, tagVars, stale, undoTag, release,
                 releaseName, files, fileIdx, retryErr, maxAttempts, calls,
                 undoVars, output>>

\* lines 375-386 without the deletion: the listed assets are left alone
AfterCleanupKeepsAssets(as, name) == as

\* lines 375-386: every listed asset named like the file is deleted
AfterCleanup(as, name) == { a \in as : a.name # name }

\* the number of assets of that name
Named(as, name) == Cardinality({ a \in as : a.name = name })

\* the ways one call of f (lines 368-400) can end. The listing or a deletion
\* can fail; the upload can fail, leaving nothing or a stale asset behind; the
\* upload fails when an asset of that name is on the release
AttemptOutcomes(name) ==
  {"listFail", "uploadFail", "uploadStale"}
    \cup (IF \E a \in assets : a.name = name THEN {"deleteFail"} ELSE {})
    \cup (IF \E a \in AfterCleanup(assets, name) : a.name = name THEN {} ELSE {"ok"})

\* line 446 testing `i === attempts`: one call of f more before giving up
LastAttemptOneMore(idx, n) == idx = n

\* line 446: i === attempts - 1
LastAttempt(idx, n) == idx = n - 1

\* lines 441-448 and 368-400 with the test of line 402 left out: after the
\* last failed call the loop goes on with the next file
UploadAttemptSkipsFailedFile ==
  /\ pc = "attempt"
  /\ LET file == files[fileIdx]
         name == Basename(file)
     IN \E out \in AttemptOutcomes(name) :
          /\ attempts' = attempts + 1
          /\ assets' =
               CASE out \in {"listFail", "deleteFail"} -> assets
                 [] out = "uploadFail" -> AfterCleanup(assets, name)
                 [] OTHER -> AfterCleanup(assets, name)
                               \cup {[name |-> name, src |-> file,
                                      complete |-> (out = "ok")]}
          /\ lastUpload' =
               IF out \in {"listFail", "deleteFail"} THEN NoUpload
               ELSE [issued |-> TRUE, listed |-> Named(assets, name),
                     left |-> Named(AfterCleanup(assets, name), name)]
          /\ IF out = "ok"
               THEN /\ UNCHANGED <<retryErr, i>>
                    /\ firstOk' = IF firstOk = 0 THEN attempts + 1 ELSE firstOk
                    /\ IF fileIdx < Len(files)
                         THEN /\ Continue("stat")
                              /\ fileIdx' = fileIdx + 1
                              /\ UNCHANGED output
                         ELSE Succeed /\ UNCHANGED fileIdx
               ELSE /\ UNCHANGED <<i, firstOk>>
                    /\ IF LastAttempt(i, maxAttempts)
                         THEN /\ retryErr' = UploadCause(fileIdx, i + 1)
                              /\ IF fileIdx < Len(files)
                                   THEN /\ Continue("stat")
                                        /\ fileIdx' = fileIdx + 1
                                        /\ UNCHANGED output
                                   ELSE Succeed /\ UNCHANGED fileIdx
                         ELSE /\ Continue("backoff")
                              /\ UNCHANGED <<retryErr, fileIdx, output>>
  /\ UNCHANGED <<configVars, refs, releases, tagVars, stale, undoTag, release,
                 releaseName, files, delay, sleeps, maxAttempts, calls,
                 undoVars>>

\* lines 441-448 with the callback of lines 368-400: one attempt
UploadAttempt ==
  /\ pc = "attempt"
  /\ LET file == files[fileIdx]
         name == Basename(file)
     IN \E out \in AttemptOutcomes(name) :
          /\ attempts' = attempts + 1
          /\ assets' =
               CASE out \in {"listFail", "deleteFail"} -> assets
                 [] out = "uploadFail" -> AfterCleanup(assets, name)
                 [] OTHER -> AfterCleanup(assets, name)
                               \cup {[name |-> name, src |-> file,
                                      complete |-> (out = "ok")]}
          /\ lastUpload' =
               IF out \in {"listFail", "deleteFail"} THEN NoUpload
               ELSE [issued |-> TRUE, listed |-> Named(assets, name),
                     left |-> Named(AfterCleanup(assets, name), name)]
          /\ IF out = "ok"
               THEN /\ UNCHANGED <<retryErr, i>>
                    /\ firstOk' = IF firstOk = 0 THEN attempts + 1 ELSE firstOk
                    /\ IF fileIdx < Len(files)
                         THEN /\ Continue("stat")
                              /\ fileIdx' = fileIdx + 1
                              /\ UNCHANGED output
                         ELSE Succeed /\ UNCHANGED fileIdx
               ELSE /\ UNCHANGED <<fileIdx, output, i, firstOk>>
                    /\ IF LastAttempt(i, maxAttempts)
                         THEN /\ retryErr' = UploadCause(fileIdx, i + 1)
                              /\ Continue("deleteCreated")
                         ELSE /\ Continue("backoff")
                              /\ UNCHANGED retryErr
  /\ UNCHANGED <<configVars, refs, releases, tagVars, stale, undoTag, release,
                 releaseName, files, delay, sleeps, maxAttempts, calls,
                 undoVars>>

\* lines 450-456: the backoff sleep, then the next iteration
Backoff ==
  /\ pc = "backoff"
  /\ \E r \in Randoms : delay' = BackoffDelay(i, r, MaxDelay)
  /\ sleeps' = sleeps + 1
  /\ i' = i + 1
  /\ Continue("attempt")
  /\ UNCHANGED <<configVars, remoteVars, tagVars, stale, undoTag, release,
                 releaseName, files, fileIdx, attempts, firstOk, retryErr,
                 lastUpload, maxAttempts, calls, undoVars, output>>

\* lines 402-413 without the try/catch: a failed delete-release propagates
DeleteCreatedUncaught ==
  /\ pc = "deleteCreated"
  /\ \E ok \in BOOLEAN :
       /\ calls' = Append(calls, Call("deleteRelease", <<>>, <<>>, FALSE,
                                      release, ok))
       /\ releases' = IF ok THEN Without(releases, release) ELSE releases
       /\ IF ok
            THEN Continue("undoAfterUpload")
            ELSE Throw("Error", "", "", CallCause(Len(calls) + 1))
  /\ UNCHANGED <<configVars, refs, assets, tagVars, stale, undoTag, release,
                 releaseName, uploadVars, undoVars, output>>

\* lines 402-413: delete-release of the created release; a failure is logged
DeleteCreated ==
  /\ pc = "deleteCreated"
  /\ \E ok \in BOOLEAN :
       /\ calls' = Append(calls, Call("deleteRelease", <<>>, <<>>, FALSE,
                                      release, ok))
       /\ releases' = IF ok THEN Without(releases, release) ELSE releases
  /\ Continue("undoAfterUpload")
  /\ UNCHANGED <<configVars, refs, assets, tagVars, stale, undoTag, release,
                 releaseName, uploadVars, undoVars, output>>

\* lines 415-421 without the throw of line 421: after the undo the loop goes
\* on with the next file
UndoAfterUploadContinues ==
  /\ pc = "undoAfterUpload"
  /\ \E ok \in UndoOutcomes : UndoTag(ok)
  /\ IF fileIdx < Len(files)
       THEN /\ Continue("stat")
            /\ fileIdx' = fileIdx + 1
            /\ UNCHANGED output
       ELSE Succeed /\ UNCHANGED fileIdx
  /\ UNCHANGED <<configVars, releases, assets, tagVars, stale, undoTag, release,
                 releaseName, files, i, delay, attempts, sleeps, firstOk,
                 retryErr, lastUpload, maxAttempts>>

\* lines 415-421: undo, then the fatal error carrying runWithRetry's error
UndoAfterUpload ==
  /\ pc = "undoAfterUpload"
  /\ \E ok \in UndoOutcomes : UndoTag(ok)
  /\ Throw("ActionError", "failed to upload file", "", retryErr)
  /\ UNCHANGED <<configVars, releases, assets, tagVars, stale, undoTag,
                 release, releaseName, uploadVars, output>>

(***************************************************************************)
(* Specification                                                           *)
(***************************************************************************)
Next ==
  \/ InitInputs
  \/ ResolveTarget
  \/ GetTag
  \/ ListReleases
  \/ DeleteStale
  \/ RegisterNoopUndo
  \/ UpdateTag
  \/ CreateTagObject
  \/ CreateRef
  \/ CreateRelease
  \/ UndoAfterCreate
  \/ GlobFiles
  \/ StatFile
  \/ UploadAttempt
  \/ Backoff
  \/ DeleteCreated
  \/ UndoAfterUpload

Spec == Init /\ [][Next]_vars

\* the steps from the reading of the inputs to create-release, for the runs
\* of TitleInit
TitleNext ==
  \/ InitInputs
  \/ GetTag
  \/ ListReleases
  \/ UpdateTag
  \/ CreateRelease
  \/ UndoAfterCreate

TitleSpec == TitleInit /\ [][TitleNext]_vars

\* the steps of the file loop, for the runs of RetryInit
RetryNext ==
  \/ GlobFiles
  \/ StatFile
  \/ UploadAttempt
  \/ Backoff
  \/ DeleteCreated
  \/ UndoAfterUpload

RetrySpec == RetryInit /\ [][RetryNext]_vars

\* the steps from the reading of the inputs to create-release, for the runs
\* of MessageInit
MessageNext ==
  \/ InitInputs
  \/ GetTag
  \/ ListReleases
  \/ CreateTagObject
  \/ CreateRef
  \/ CreateRelease
  \/ UndoAfterCreate

MessageSpec == MessageInit /\ [][MessageNext]_vars

\* run() returned or the top-level catch has exited the process
Terminated == pc \in {"done", "failed"}

\* every await of run() returns, so a run that can take a step takes one
LiveSpec == Init /\ [][Next]_vars /\ WF_vars(Next)


(***************************************************************************)
(* Properties                                                              *)
(***************************************************************************)
Issued(ops) == \E k \in 1..Len(calls) : calls[k].op \in ops

MutatingOps ==
  {"deleteRelease", "updateRef", "createTag", "createRef", "deleteRef",
   "createRelease"}

\* the forced update-ref of tags/<tag> to targetSha
IsForcedUpdate(c) ==
  /\ c.op = "updateRef"
  /\ c.ref = TagRef
  /\ c.sha = targetSha.val
  /\ c.force

\* positions of run() after the tag step
AfterTagStep ==
  {"createRelease", "undoAfterCreate", "glob", "stat", "attempt", "backoff",
   "deleteCreated", "undoAfterUpload", "done"}

\* C1: with FailFast, once the tag lookup has found the tag the run has
\* failed with "tag already exists" and no mutating call was issued.
C1_FailFastExistingTag ==
  (strategy = FailFast /\ existingTag.has) =>
    /\ pc = "failed"
    /\ exitCode = 1
    /\ err.msg = "tag already exists"
    /\ ~Issued(MutatingOps)

C1_Witness ==
  /\ strategy = FailFast
  /\ existingTag.has
  /\ pc = "failed"
  /\ calls # <<>>

\* C2: with Replace and the tag found, create-tag-object and create-ref are
\* never issued, every call of the tag step or after it is preceded by the
\* forced update-ref of tags/<tag> to targetSha, and a run that has passed the
\* tag step has had that update accepted.
C2_ReplaceUpdatesExistingTag ==
  (strategy = Replace /\ existingTag.has) =>
    /\ ~Issued({"createTag", "createRef"})
    /\ \A k \in 1..Len(calls) :
         calls[k].op \in {"updateRef", "deleteRef", "createRelease"} =>
           \E j \in 1..k : IsForcedUpdate(calls[j])
    /\ pc \in AfterTagStep =>
         \E j \in 1..Len(calls) : IsForcedUpdate(calls[j]) /\ calls[j].ok
    /\ err.msg = "failed to update existing tag" =>
         IsForcedUpdate(calls[Len(calls)])

C2_Witness ==
  /\ strategy = Replace
  /\ existingTag.has
  /\ pc = "createRelease"
  /\ refs[FullTagRef] = targetSha
  /\ IsForcedUpdate(calls[Len(calls)])

\* C3: with UseExistingTag no update-ref, create-tag-object, create-ref or
\* delete-ref is ever issued, and the only undo ever registered is the no-op.
C3_UseExistingTagNeverMutatesTag ==
  rawStrategy = UseExistingTag =>
    /\ ~Issued({"updateRef", "createTag", "createRef", "deleteRef"})
    /\ undoTag \in {"unset", "noop"}
    /\ refs[FullTagRef] = existingTag \/ ~existingTag.has

C3_Witness ==
  /\ rawStrategy = UseExistingTag
  /\ ~existingTag.has
  /\ pc = "failed"
  /\ undoCalls = 1


\* the tag lookup threw an HTTP 404 and run() went on with the tag absent
TagReportedAbsent == IsHttpError(lookupErr) /\ lookupErr.status = 404

\* C4: in a run where the tag lookup reported the tag absent, create-release
\* is issued only after a create-tag-object and a create-ref of this run
\* succeeded, whatever the strategy.
C4_AbsentTagCreatedBeforeRelease ==
  TagReportedAbsent =>
    \A r \in 1..Len(calls) :
      calls[r].op = "createRelease" =>
        \E j, k \in 1..r :
          /\ j < k
          /\ calls[j].op = "createTag" /\ calls[j].ok
          /\ calls[k].op = "createRef" /\ calls[k].ok

\* C5: with UseExistingTag and the tag reported absent, no delete-release and
\* no create-release is issued and the run can only end in a fatal error.
C5_UseExistingTagAbsentIsFatal ==
  (strategy = UseExistingTag /\ TagReportedAbsent) =>
    /\ ~Issued({"deleteRelease", "createRelease"})
    /\ pc # "done"

\* C6: when create-release has been issued, no release that was in the
\* repository before the run still carries the configured tag.
C6_StaleReleasesDeletedBeforeCreate ==
  Issued({"createRelease"}) =>
    \A k \in 1..Len(releases) :
      releases[k].tag_name = Tag => releases[k].id = NewReleaseId

\* init() is over: it returned the configuration or threw
InitOver == pc \notin {"init", "resolveTarget"}

\* the only call issued so far is init()'s lookup of the target ref
OnlyTargetLookup ==
  \A k \in 1..Len(calls) :
    calls[k].op = "getRef" /\ calls[k].ref = StripRefs(GetInput(rawTarget).val)

C7_TargetPresence ==
  initialized => (targetSha.has <=> strategy # UseExistingTag)

C7_MissingTarget ==
  (InitOver /\ strategy \in {FailFast, Replace} /\ ~GetInput(rawTarget).has) =>
    /\ pc = "failed"
    /\ err.kind = "InputParameterRequiredError"
    /\ err.param = "target"
    /\ calls = <<>>

\* C7 as stated: construction succeeds only with targetSha present exactly
\* when the strategy is not UseExistingTag; a missing target with FailFast or
\* Replace is a required-parameter error for 'target', a supplied target with
\* UseExistingTag is an incompatible-strategy error, both before run() issues
\* a call.
C7_Original ==
  /\ C7_TargetPresence
  /\ C7_MissingTarget
  /\ (InitOver /\ strategy = UseExistingTag /\ GetInput(rawTarget).has) =>
       /\ pc = "failed"
       /\ err.kind = "InputParameterIncompatibleStrategyError"
       /\ err.param = "target"
       /\ OnlyTargetLookup

\* C7, amended: a supplied target with UseExistingTag is an
\* incompatible-strategy error, or, when the target names a ref whose lookup
\* fails, the "failed to resolve target ref" error of that lookup.
C7_ConfigurationInvariant ==
  /\ C7_TargetPresence
  /\ C7_MissingTarget
  /\ (InitOver /\ strategy = UseExistingTag /\ GetInput(rawTarget).has) =>
       /\ pc = "failed"
       /\ OnlyTargetLookup
       /\ \/ /\ err.kind = "InputParameterIncompatibleStrategyError"
             /\ err.param = "target"
             /\ \A k \in 1..Len(calls) : calls[k].ok
          \/ /\ Includes(GetInput(rawTarget).val, SLASH)
             /\ err.kind = "ActionError"
             /\ err.msg = "failed to resolve target ref"
             /\ Len(calls) = 1
             /\ ~calls[1].ok
             /\ err.cause = CallCause(1)

C7_Witness ==
  /\ strategy = UseExistingTag
  /\ pc = "failed"
  /\ err.kind = "InputParameterIncompatibleStrategyError"
  /\ Len(calls) = 1
  /\ calls[1].ok


\* C8: once a create-release call has failed, the run is about to invoke the
\* undo, or has invoked it exactly once and ended with the fatal "failed to
\* create release" error whose cause is the error of that call, whether or
\* not the undo threw; no file was expanded or uploaded and no output emitted.
C8_CreateReleaseFailure ==
  \A k \in 1..Len(calls) :
    (calls[k].op = "createRelease" /\ ~calls[k].ok) =>
      \/ /\ pc = "undoAfterCreate"
         /\ k = Len(calls)
         /\ undoCalls = 0
         /\ exitCode = -1
      \/ /\ pc = "failed"
         /\ exitCode = 1
         /\ undoCalls = 1
         /\ err.kind = "ActionError"
         /\ err.msg = "failed to create release"
         /\ err.cause = CallCause(k)
         /\ files = <<>>
         /\ attempts = 0
         /\ release = 0
         /\ output = 0

C8_Witness ==
  /\ pc = "failed"
  /\ err.msg = "failed to create release"
  /\ undoFailed
  /\ undoCalls = 1
  /\ calls[Len(calls) - 1].op = "createRelease"

\* C9: once the 4th attempt of a file has failed, the run deletes the created
\* release, then invokes the undo once (also when the deletion failed), then
\* ends with the "failed to upload file" error whose cause is the error of
\* the 4th attempt; the failing file stays the current one, so no later file
\* is attempted.
C9_UploadExhaustion ==
  (attempts = Attempts /\ firstOk = 0) =>
    /\ retryErr = UploadCause(fileIdx, Attempts)
    /\ pc \in {"deleteCreated", "undoAfterUpload", "failed"}
    /\ pc = "deleteCreated" => undoCalls = 0
    /\ pc = "undoAfterUpload" =>
         /\ undoCalls = 0
         /\ calls[Len(calls)].op = "deleteRelease"
         /\ calls[Len(calls)].id = release
    /\ pc = "failed" =>
         /\ undoCalls = 1
         /\ exitCode = 1
         /\ output = 0
         /\ err.kind = "ActionError"
         /\ err.msg = "failed to upload file"
         /\ err.cause = UploadCause(fileIdx, Attempts)
         /\ LET d == IF undoTag = "noop" THEN Len(calls) ELSE Len(calls) - 1
            IN /\ calls[d].op = "deleteRelease"
               /\ calls[d].id = release

C9_Witness ==
  /\ attempts = Attempts
  /\ firstOk = 0
  /\ pc = "failed"
  /\ fileIdx < Len(files)
  /\ undoCalls = 1
  /\ undoTag = "restore"
  /\ ~calls[Len(calls) - 1].ok
  /\ calls[Len(calls) - 1].op = "deleteRelease"

\* C10: no backoff sleep exceeds 4000 ms, and once a call of f has returned
\* for a file, as the k-th call, exactly k calls and k - 1 sleeps were made
\* for it and the run has gone on: to the stat of the next file, or to the
\* output and exit 0 after the last file.
C10_RetryUntilSuccess ==
  /\ delay <= MaxDelay
  /\ firstOk # 0 =>
       /\ firstOk \in 1..Attempts
       /\ attempts = firstOk
       /\ sleeps = firstOk - 1
       /\ retryErr = NoCause
       /\ \/ pc = "stat" /\ fileIdx \in 2..Len(files)
          \/ pc = "done" /\ fileIdx = Len(files) /\ exitCode = 0 /\ output = release
          \/ pc = "failed" /\ err.kind = "Error" /\ fileIdx \in 2..Len(files)

C10_Witness ==
  /\ pc = "done"
  /\ firstOk = Attempts
  /\ attempts = Attempts
  /\ sleeps = Attempts - 1
  /\ delay = MaxDelay
  /\ exitCode = 0
  /\ output = release
  /\ Len(files) > 1

TagMutated ==
  \E k \in 1..Len(calls) :
    /\ calls[k].ok
    /\ \/ calls[k].op = "createRef"
       \/ calls[k].op = "updateRef" /\ calls[k].force

\* C12: a run that has ended with a fatal error after a tag mutation was
\* accepted has invoked the undo action.
C12_UndoOnAnyFatalFailure ==
  (pc = "failed" /\ TagMutated) => undoCalls >= 1

\* every matched file has its asset on the release
AllUploaded ==
  \A k \in 1..Len(files) :
    \E a \in assets : a.name = Basename(files[k]) /\ a.complete

\* C13: a run that has ended either completed the tag step, the release
\* creation and the upload of every matched file, or failed, and then, if it
\* had created the release, it has issued delete-release for it.
C13_NoPartialSuccess ==
  /\ pc = "done" =>
       /\ undoTag # "unset"
       /\ release # 0
       /\ AllUploaded
  /\ (pc = "failed" /\ release # 0) =>
       \E k \in 1..Len(calls) :
         calls[k].op = "deleteRelease" /\ calls[k].id = release

\* C14: the release-id output is emitted only by a run that ends with exit
\* status 0 after create-release succeeded and every matched file was
\* uploaded, its value is the id create-release returned, it is emitted as
\* the last step (so at most once), and a run that hit a fatal error exits
\* non-zero without it.
C14_OutputOnlyOnFullSuccess ==
  /\ output # 0 =>
       /\ pc = "done"
       /\ exitCode = 0
       /\ output = release
       /\ release = NewReleaseId
       /\ \E k \in 1..Len(calls) : calls[k].op = "createRelease" /\ calls[k].ok
       /\ AllUploaded
       /\ files # <<>> => (fileIdx = Len(files) /\ firstOk # 0)
  /\ pc = "done" => output # 0
  /\ exitCode = 0 => output # 0
  /\ pc = "failed" => (exitCode = 1 /\ output = 0)
  /\ err # NoErr => pc = "failed"

C14_Witness ==
  /\ pc = "done"
  /\ output = NewReleaseId
  /\ exitCode = 0
  /\ Len(files) = MaxFiles
  /\ AllUploaded

\* the inputs init() reads before 'target' are usable
InputsBeforeTargetValid == rawOthers = "ok" /\ rawStrategy \in Strategy

\* some input fails validation: a required one is missing, an enum or boolean
\* value is invalid, the repository is malformed, or 'target' is missing or
\* incompatible with the strategy
InvalidInputs ==
  \/ ~InputsBeforeTargetValid
  \/ rawStrategy \in {FailFast, Replace} /\ rawTarget = <<>>
  \/ rawStrategy = UseExistingTag /\ rawTarget # <<>>

ValidationErrors ==
  {"MissingInputParameterError", "InvalidInputParameterValueError",
   "InputParameterRequiredError", "InputParameterIncompatibleStrategyError"}

IsValidationError(e) ==
  \/ e.kind \in ValidationErrors
  \/ e.msg = "repository is not in the <owner>/<repo> format"

\* C15: with an input that fails validation, init() ends in an error before
\* any mutating call, with no undo registered or invoked; and a validation
\* error is never raised after a mutating call or an undo.
C15_ValidationBeforeMutation ==
  /\ (InvalidInputs /\ InitOver) =>
       /\ pc = "failed"
       /\ exitCode = 1
       /\ ~initialized
       /\ ~Issued(MutatingOps)
       /\ undoTag = "unset"
       /\ undoCalls = 0
       /\ \/ IsValidationError(err)
          \/ err.msg = "failed to resolve target ref"
  /\ IsValidationError(err) =>
       /\ ~Issued(MutatingOps)
       /\ undoCalls = 0
       /\ \A k \in 1..Len(calls) : calls[k].op = "getRef"

C15_Witness ==
  /\ pc = "failed"
  /\ err.kind = "InvalidInputParameterValueError"
  /\ err.param = "strategy"
  /\ rawStrategy = "bogus"
  /\ calls = <<>>

\* C16: when the tag lookup threw the HTTP error of status 404, the tag is
\* taken as absent and the run went on to list-releases; when it threw
\* anything else, the run has ended with a "failed to verify" error caused
\* by that lookup, which is the last call issued, and none is mutating.
C16_TagLookupErrors ==
  /\ lookupErr = Http404 =>
       /\ ~existingTag.has
       /\ pc # "getTag"
       /\ err.msg \notin {"failed to verify if tag already exists",
                          "failed to verify if tag already exists (unknown error)"}
       /\ pc = "failed" => Issued({"listReleases"})
  /\ lookupErr \in LookupErrors \ {Http404} =>
       /\ pc = "failed"
       /\ exitCode = 1
       /\ err.kind = "ActionError"
       /\ err.msg = IF lookupErr = Http500
                      THEN "failed to verify if tag already exists"
                      ELSE "failed to verify if tag already exists (unknown error)"
       /\ err.cause = CallCause(Len(calls))
       /\ calls[Len(calls)].op = "getRef"
       /\ calls[Len(calls)].ref = TagRef
       /\ ~Issued(MutatingOps)
       /\ undoCalls = 0

C16_Witness ==
  /\ lookupErr = Http404
  /\ strategy = FailFast
  /\ pc = "createRelease"
  /\ refs[FullTagRef] = targetSha

\* the target with one leading refs/ removed
WithoutLeadingRefs(t) ==
  IF Len(t) >= 5 /\ SubSeq(t, 1, 5) = <<"r", "e", "f", "s", "/">>
    THEN SubSeq(t, 6, Len(t))
    ELSE t

\* C17: once init() has dealt with a target containing '/', its first call
\* is the one get-ref of the target without a leading refs/; if that call
\* failed the run ended with "failed to resolve target ref", and a
\* configuration is returned only with the sha the ref points at. A target
\* without '/' is targetSha as it is, and the only get-ref is the tag lookup.
C17_TargetResolution ==
  LET target == GetInput(rawTarget)
      isRef == target.has /\ Includes(target.val, SLASH)
  IN /\ (InputsBeforeTargetValid /\ InitOver /\ isRef) =>
          /\ calls # <<>>
          /\ calls[1].op = "getRef"
          /\ calls[1].ref = WithoutLeadingRefs(target.val)
          /\ \A k \in 2..Len(calls) :
               ~(calls[k].op = "getRef" /\ calls[k].ref = calls[1].ref)
          /\ ~calls[1].ok =>
               /\ pc = "failed"
               /\ ~initialized
               /\ err.kind = "ActionError"
               /\ err.msg = "failed to resolve target ref"
               /\ err.cause = CallCause(1)
               /\ Len(calls) = 1
          /\ initialized =>
               /\ calls[1].ok
               /\ targetSha = refs[<<"r", "e", "f", "s", "/">> \o calls[1].ref]
     /\ (initialized /\ ~isRef) =>
          /\ targetSha = target
          /\ \A k \in 1..Len(calls) :
               calls[k].op = "getRef" => (k = 1 /\ calls[k].ref = TagRef)

C17_Witness ==
  /\ initialized
  /\ rawTarget = S_refs \o S_heads_m
  /\ targetSha = Some(Sha1)
  /\ calls[1].ref = S_heads_m
  /\ Len(calls) > 1

\* C18 as stated: the name sent in create-release is the 'title' input as
\* supplied with title-source=literal, and the contents of the file with
\* title-source=file.
C18_Original ==
  releaseName.has =>
    /\ titleInputs.source = "literal" => releaseName.val = titleInputs.raw
    /\ titleInputs.source = "file" => releaseName = titleInputs.file

\* C18, amended: the name sent in create-release is the 'title' input with
\* the white space around it removed with title-source=literal, and the
\* contents of the file, untouched, with title-source=file.
C18_TitleRoundTrip ==
  releaseName.has =>
    /\ titleInputs.source = "literal" =>
         releaseName.val = TrimEnd(TrimStart(titleInputs.raw))
    /\ titleInputs.source = "file" => releaseName = titleInputs.file

C18_Witness ==
  /\ titleInputs.source = "file"
  /\ releaseName = Some(<<"Y", NEWLINE>>)
  /\ calls[Len(calls)].op = "createRelease"
  /\ pc = "glob"

\* C19: every create-ref names refs/tags/<tag>, carries the sha of the tag
\* object made by the create-tag-object issued just before it, and that tag
\* object targets targetSha.
C19_RefPointsAtTagObject ==
  \A k \in 1..Len(calls) :
    calls[k].op = "createRef" =>
      /\ k > 1
      /\ calls[k - 1].op = "createTag"
      /\ calls[k - 1].ok
      /\ calls[k - 1].sha = targetSha.val
      /\ calls[k].ref = FullTagRef
      /\ calls[k].sha = ShaT

\* the remote ref a call names: create-ref takes the fully qualified name,
\* get-ref, update-ref and delete-ref take the name after refs/
RefDenoted(c) == IF c.op = "createRef" THEN c.ref ELSE S_refs \o c.ref

\* C20: every delete-ref denotes refs/tags/<tag>, the ref a create-ref of
\* this run created and the tag lookup queried, and once it was accepted the
\* tag is absent.
C20_UndoDeletesCreatedRef ==
  \A k \in 1..Len(calls) :
    calls[k].op = "deleteRef" =>
      /\ RefDenoted(calls[k]) = FullTagRef
      /\ \E j \in 1..k :
           /\ calls[j].op = "createRef"
           /\ calls[j].ok
           /\ RefDenoted(calls[j]) = RefDenoted(calls[k])
      /\ \E j \in 1..k :
           /\ calls[j].op = "getRef"
           /\ calls[j].ref = TagRef
           /\ RefDenoted(calls[j]) = RefDenoted(calls[k])
      /\ calls[k].ok => ~refs[FullTagRef].has

\* C21: every restore issued by the undo (the update-ref that is not forced)
\* is an update-ref of tags/<tag> to the sha the tag lookup read, the forge accepts it as issued (it is forced
\* or a fast-forward from targetSha), and once accepted the tag ref is at
\* that sha again.
C21_UndoRestoresOriginalSha ==
  \A k \in 1..Len(calls) :
    (calls[k].op = "updateRef" /\ ~calls[k].force) =>
      /\ calls[k].ref = TagRef
      /\ calls[k].sha = existingTag.val
      /\ UpdateAccepted(targetSha.val, calls[k].sha, calls[k].force)
      /\ calls[k].ok => refs[FullTagRef] = existingTag

\* a call of the tag mutation step: the forced update-ref, create-tag-object
\* or create-ref
IsTagMutation(c) ==
  \/ c.op \in {"createTag", "createRef"}
  \/ c.op = "updateRef" /\ c.force

\* C22: once a call of the tag mutation step has failed, it is the last call
\* of the run, which has ended with the fatal error of that step caused by
\* that call; no undo was registered or invoked, create-release was not
\* issued, and the tag ref is as the tag lookup found it.
C22_TagMutationFailure ==
  \A k \in 1..Len(calls) :
    (IsTagMutation(calls[k]) /\ ~calls[k].ok) =>
      /\ pc = "failed"
      /\ exitCode = 1
      /\ k = Len(calls)
      /\ err.kind = "ActionError"
      /\ err.msg = IF calls[k].op = "updateRef"
                     THEN "failed to update existing tag"
                     ELSE "failed to create tag"
      /\ err.cause = CallCause(k)
      /\ undoTag = "unset"
      /\ undoCalls = 0
      /\ ~Issued({"createRelease"})
      /\ release = 0
      /\ refs[FullTagRef] = existingTag

C22_Witness ==
  /\ pc = "failed"
  /\ err.msg = "failed to create tag"
  /\ calls[Len(calls)].op = "createRef"
  /\ calls[Len(calls) - 1].op = "createTag"
  /\ calls[Len(calls) - 1].ok
  /\ ~refs[FullTagRef].has

\* the undo the strategy and the tag lookup call for
ExpectedUndo ==
  IF strategy = UseExistingTag THEN "noop"
  ELSE IF existingTag.has THEN "restore" ELSE "deleteRef"

\* C23: from the moment create-release can be issued the registered undo is
\* the one the strategy and the tag state call for, a restore or delete-ref
\* undo is registered only after its tag mutation was accepted, and the undo
\* is invoked only after the tag step and a create-release call.
C23_OneUndoRegistered ==
  /\ pc \in AfterTagStep => undoTag = ExpectedUndo
  /\ Issued({"createRelease"}) => undoTag = ExpectedUndo
  /\ undoTag \in {"unset", "noop", "restore", "deleteRef"}
  /\ undoTag = "restore" =>
       \E k \in 1..Len(calls) : IsForcedUpdate(calls[k]) /\ calls[k].ok
  /\ undoTag = "deleteRef" =>
       \E k \in 1..Len(calls) : calls[k].op = "createRef" /\ calls[k].ok
  /\ undoCalls > 0 =>
       /\ undoTag # "unset"
       /\ Issued({"createRelease"})

C23_Witness ==
  /\ pc = "failed"
  /\ undoTag = "deleteRef"
  /\ undoCalls = 1
  /\ strategy = FailFast
  /\ err.msg = "failed to upload file"

\* C24: a sleep follows only a failed call of f that is not the last one, so
\* the sleeps of a file number i and are one less than the calls when a call
\* is about to be made; the delay of the last sleep is in 1000..2000 after
\* attempt 0, in 2000..3000 after attempt 1 and exactly 4000 after attempt 2.
C24_BackoffDelays ==
  /\ sleeps = i
  /\ sleeps <= Attempts - 1
  /\ attempts \in {sleeps, sleeps + 1}
  /\ pc = "backoff" =>
       /\ attempts = sleeps + 1
       /\ attempts < Attempts
       /\ firstOk = 0
  /\ firstOk # 0 => sleeps = firstOk - 1
  /\ (attempts = Attempts /\ firstOk = 0) => sleeps = Attempts - 1
  /\ sleeps = 0 => delay = 0
  /\ sleeps = 1 => delay \in 1000..2000
  /\ sleeps = 2 => delay \in 2000..3000
  /\ sleeps = 3 => delay = 4000

C24_Witness ==
  /\ pc = "attempt"
  /\ i = 1
  /\ sleeps = 1
  /\ attempts = 1
  /\ delay = 2000

\* the state RetryInit starts from, with the attempts argument of line 368
RetryInitReached ==
  /\ pc = "glob"
  /\ maxAttempts = Attempts
  /\ strategy = Replace
  /\ targetSha = Some(<<"a">>)
  /\ existingTag = Some(Sha0)
  /\ refs[FullTagRef] = Some(<<"a">>)
  /\ releases = <<[id |-> NewReleaseId, tag_name |-> Tag]>>
  /\ Len(calls) = 4

AssetOf(k) ==
  [name |-> Basename(files[k]), src |-> files[k], complete |-> TRUE]

\* C25: a call of f is made only for the current file, one at a time, and
\* the loop moves to a file only from the glob (the first file) or by a step
\* in which the upload of the file before it succeeds.
C25_SequentialUploads ==
  [][ /\ fileIdx' # fileIdx =>
           \/ pc = "glob" /\ fileIdx = 0 /\ fileIdx' = 1
           \/ /\ pc = "attempt"
              /\ pc' = "stat"
              /\ fileIdx' = fileIdx + 1
              /\ attempts' = attempts + 1
              /\ firstOk' = attempts'
              /\ AssetOf(fileIdx) \in assets'
      /\ attempts' # attempts =>
           \/ pc = "stat" /\ attempts' = 0
           \/ /\ pc = "attempt"
              /\ fileIdx \in 1..Len(files)
              /\ attempts' = attempts + 1
              /\ firstOk = 0
    ]_vars

C25_Witness ==
  /\ pc = "attempt"
  /\ fileIdx = 2
  /\ attempts = 1
  /\ firstOk = 0
  /\ AssetOf(1) \in assets

\* C27: the tag message of the configuration is the 'tag-message' input
\* (white space around it aside) whenever the input is supplied, the empty
\* string included, and the tag name only when the input is omitted.
C27_TagMessage ==
  initialized =>
    /\ rawTagMessage.has => tagMessage = TrimEnd(TrimStart(rawTagMessage.val))
    /\ ~rawTagMessage.has => tagMessage = Tag

\* C28: the undo is invoked at most once, never in a run that ends
\* successfully, and a run that has invoked it has ended: either on the
\* release-creation failure path, with no release and no upload attempted,
\* or on the upload-exhaustion path, with the release created.
C28_UndoAtMostOnce ==
  /\ undoCalls <= 1
  /\ pc = "done" => undoCalls = 0
  /\ undoCalls = 1 =>
       /\ pc = "failed"
       /\ exitCode = 1
       /\ output = 0
       /\ \/ /\ err.msg = "failed to create release"
             /\ release = 0
             /\ files = <<>>
             /\ attempts = 0
          \/ /\ err.msg = "failed to upload file"
             /\ release # 0
             /\ attempts = Attempts
             /\ firstOk = 0
       /\ undoTag = "noop" \/ calls[Len(calls)].op \in {"updateRef", "deleteRef"}

C28_Witness ==
  /\ undoCalls = 1
  /\ pc = "failed"
  /\ err.msg = "failed to upload file"
  /\ undoTag = "restore"
  /\ ~undoFailed
  /\ refs[FullTagRef] = existingTag

\* C29: after a successful run the release carries, for each matched file,
\* the asset uploaded from that file.
C29_OneAssetPerFile ==
  pc = "done" =>
    /\ \A k \in 1..Len(files) : AssetOf(k) \in assets
    /\ Cardinality(assets) = Len(files)

\* C30: once the tag step or create-release has been reached, and in every
\* run that failed at the tag mutation or at the release creation, no release
\* that was in the repository before the run carries the tag.
C30_StaleReleasesStayDeleted ==
  /\ (\/ pc \in {"tagStep", "createRef", "createRelease"}
      \/ \E k \in 1..Len(calls) : IsTagMutation(calls[k]))
       => \A k \in 1..Len(releases) :
            releases[k].tag_name = Tag => releases[k].id = NewReleaseId
  /\ err.msg \in {"failed to update existing tag", "failed to create tag",
                  "failed to create release"} =>
       \A k \in 1..Len(releases) : releases[k].tag_name # Tag

\* the create-release calls issued so far
CreateReleaseCalls == {k \in 1..Len(calls) : calls[k].op = "createRelease"}

\* the two ways a run ends, and the calls it has spent
C31_Bounded ==
  /\ Cardinality(CreateReleaseCalls) <= 1
  /\ attempts <= 4
  /\ pc = "done" => exitCode = 0 /\ output # 0
  /\ pc = "failed" => exitCode > 0 /\ output = 0
  /\ ~Terminated => exitCode = -1 /\ output = 0

\* C31: when every await returns, every run ends, either with the output
\* emitted and exit 0 or with a non-zero exit and no output, and at no time
\* has it issued more than one create-release or called the upload callback
\* more than 4 times for one file.
C31_Terminates == []C31_Bounded /\ <>Terminated

C31_Witness ==
  /\ pc = "failed"
  /\ exitCode = 1
  /\ output = 0
  /\ fileIdx = 2
  /\ attempts = 4
  /\ Cardinality(CreateReleaseCalls) = 1
\* the calls of that operation that returned
ReturnedCalls(op) == {k \in 1..Len(calls) : calls[k].op = op /\ calls[k].ok}

\* the number of releases in the repository before the run: no other actor
\* adds or removes one
ReleasesBefore ==
  Len(releases) + Cardinality(ReturnedCalls("deleteRelease"))
    - Cardinality(ReturnedCalls("createRelease"))

\* the releases of the configured tag
OfTag == {k \in 1..Len(releases) : releases[k].tag_name = Tag}

\* C32: after a successful run whose list-releases call returned every
\* release of the repository, exactly one release carries the configured tag,
\* and it is the release this run created.
C32_OneReleaseOfTag ==
  (pc = "done" /\ ReleasesBefore <= PerPage) =>
    /\ Cardinality(OfTag) = 1
    /\ \A k \in OfTag : releases[k].id = release
    /\ release = NewReleaseId
    /\ output = release

C32_Witness ==
  /\ pc = "done"
  /\ ReleasesBefore = 1
  /\ Cardinality(ReturnedCalls("deleteRelease")) = 1
  /\ releases = <<[id |-> NewReleaseId, tag_name |-> Tag]>>
====
